---- MODULE Spec2Model ----
(***************************************************************************)
(* Model of the request admission and caching layer of api_server.py:      *)
(* RateLimiter (sliding window, in memory), DataCache (one file per key,   *)
(* validity by file modification time) and the require_rate_limit          *)
(* decorator composed with the endpoint handlers.                          *)
(*                                                                         *)
(* Time is the integer number of seconds read by time.time().              *)
(***************************************************************************)
EXTENDS Integers, Sequences, FiniteSets, TLC

VARIABLES
    clock,           \* the system time, time.time()
    max_requests,    \* RateLimiter.max_requests
    window_seconds,  \* RateLimiter.window_seconds
    requests,        \* RateLimiter.requests: client ip -> reference of a list
    heap,            \* the list objects: reference -> sequence of timestamps
    pc,              \* position of each request thread inside the call it runs
    local,           \* the local variables of each thread's call
    calls,           \* number of calls started (is_allowed, requests, cache calls)
    last,            \* the most recent is_allowed call that returned
    admitted,        \* per client, the timestamps of the calls that returned True
    ttl_seconds,     \* DataCache.ttl_seconds
    files,           \* the cache directory: file name -> modification time, content
    written,         \* per key, the time and the value of the latest DataCache.set
    lastGet,         \* the most recent DataCache.get call that returned
    gets,            \* number of DataCache.get calls made directly
    response         \* the response to the most recent request, with the request

limiterVars == <<max_requests, window_seconds, requests, heap>>
threadVars == <<pc, local>>
ghostVars == <<calls, last, admitted>>
cacheVars == <<ttl_seconds, files>>
cacheGhostVars == <<written, lastGet, gets>>
limiterSide == <<limiterVars, threadVars, ghostVars>>
cacheSide == <<cacheVars, cacheGhostVars>>
vars == <<clock, limiterSide, cacheSide, response>>

----------------------------------------------------------------------------
(* Bounds of the model *)

\* the clock stops advancing after MaxTicks ticks
MaxTicks == 6
\* at most MaxCalls is_allowed calls are made
MaxCalls == 5

\* with concurrent threads: the clock stops after MaxThreadTicks ticks and
\* at most MaxThreadCalls is_allowed calls are made
MaxThreadTicks == 3
MaxThreadCalls == 3

\* at most MaxGets DataCache.get calls are made directly
MaxGets == 3
\* with whole requests: the clock stops after MaxRequestTicks ticks and at
\* most MaxRequests requests are sent to the endpoints
MaxRequestTicks == 2
MaxRequests == 2
\* with concurrent threads: at most MaxCacheCalls DataCache calls are made
MaxCacheCalls == 3

Clients == {"A", "B"}
Threads == {"t1", "t2"}
\* the clock advances by one of these numbers of seconds
TickSteps == {20}
MaxTime == MaxTicks * 20
MaxThreadTime == MaxThreadTicks * 20
\* with whole requests the clock advances by this number of seconds
RequestTickSteps == {40}
MaxRequestTime == MaxRequestTicks * 40
\* RATE_LIMIT_REQUESTS values the application is configured with
MaxRequestsChoices == {0, 1, 2}
\* RATE_LIMIT_WINDOW values (minutes) the application is configured with
WindowMinutesChoices == {1}
\* CACHE_TTL values (minutes) the application is configured with
TtlMinutesChoices == {1}

\* references of list objects: one per client for the shared dictionary and
\* one per client for each dictionary a thread is building
ListIds == 1 .. (Cardinality(Clients) * (Cardinality(Threads) + 1))

----------------------------------------------------------------------------
(* RateLimiter *)

\* window_minutes * 60
WindowSeconds(window_minutes) == window_minutes * 60

\* cutoff_time = current_time - self.window_seconds
CutoffTime(current_time, window) == current_time - window

\* a window that is closed at its old end: ts >= cutoff_time
IsRecent_Inclusive(ts, cutoff_time) == ts >= cutoff_time

\* ts > cutoff_time
IsRecent(ts, cutoff_time) == ts > cutoff_time

\* any(ts > cutoff_time for ts in timestamps)
AnyRecent(timestamps, cutoff_time) ==
    \E i \in DOMAIN timestamps : IsRecent(timestamps[i], cutoff_time)

\* a cleanup that forgets every client
CleanOldEntries_DropAll(reqs, hp, cutoff_time) == [ip \in {} |-> 0]

\* a cleanup that keeps every client entry
CleanOldEntries_KeepAll(reqs, hp, cutoff_time) == reqs

\* {ip: timestamps for ip, timestamps in self.requests.items() if any(...)}:
\* a new dictionary holding the same list objects
CleanOldEntries(reqs, hp, cutoff_time) ==
    [ip \in {c \in DOMAIN reqs : AnyRecent(hp[reqs[c]], cutoff_time)} |-> reqs[ip]]

\* [ts for ts in self.requests[client_ip] if ts > cutoff_time]
RemoveOldTimestamps(timestamps, cutoff_time) ==
    LET Keep(ts) == IsRecent(ts, cutoff_time)
    IN  SelectSeq(timestamps, Keep)

\* a limit test that takes a limit of 0 to mean no limit
AtLimit_ZeroUnlimited(timestamps, max) == max > 0 /\ Len(timestamps) >= max

\* a limit test that is off by one: len(...) > self.max_requests
AtLimit_OffByOne(timestamps, max) == Len(timestamps) > max

\* len(self.requests[client_ip]) >= self.max_requests
AtLimit(timestamps, max) == Len(timestamps) >= max

\* a limiter that records the attempt before it tests the limit
CheckAndRecord_AlwaysRecord(timestamps, current_time, max) ==
    [timestamps |-> Append(timestamps, current_time),
     ret |-> ~(Len(timestamps) >= max)]

\* a limiter that admits without recording the request
CheckAndRecord_NoRecord(timestamps, current_time, max) ==
    [timestamps |-> timestamps, ret |-> ~(Len(timestamps) >= max)]

\* if len(...) >= self.max_requests: return False
\* self.requests[client_ip].append(current_time); return True
CheckAndRecord(timestamps, current_time, max) ==
    IF AtLimit(timestamps, max)
    THEN [timestamps |-> timestamps, ret |-> FALSE]
    ELSE [timestamps |-> Append(timestamps, current_time), ret |-> TRUE]

\* d[k] = v on a dictionary
DictSet(d, k, v) == [x \in DOMAIN d \cup {k} |-> IF x = k THEN v ELSE d[x]]

EmptyDict == [ip \in {} |-> 0]

Range(f) == {f[x] : x \in DOMAIN f}

\* the references a thread holds in the dictionary it is building
HeldBy(lc, th) == Range(lc[th].newdict)

\* the list references reachable from the shared dictionary reqs or a thread
Reachable(reqs, lc) == Range(reqs) \cup UNION {HeldBy(lc, th) : th \in Threads}

\* a reference for a newly built list: one no reachable object uses
NewRef(used) == CHOOSE id \in ListIds \ used : \A o \in ListIds \ used : id <= o

\* unreachable list objects are collected
Collect(hp, reqs, lc) ==
    [id \in ListIds |-> IF id \in Reachable(reqs, lc) THEN hp[id] ELSE <<>>]

\* is_allowed run from its first to its last statement with no other thread
\* in between: the dictionary, the lists and the value returned
IsAllowedResult(reqs, hp, lc, client_ip, current_time, max, window) ==
    LET cutoff_time == CutoffTime(current_time, window)
        r1 == CleanOldEntries(reqs, hp, cutoff_time)
        fresh == client_ip \notin DOMAIN r1
        id2 == IF fresh THEN NewRef(Range(r1) \cup UNION {HeldBy(lc, th) : th \in Threads})
               ELSE r1[client_ip]
        r2 == DictSet(r1, client_ip, id2)
        h2 == IF fresh THEN [hp EXCEPT ![id2] = <<>>] ELSE hp
        kept == RemoveOldTimestamps(h2[r2[client_ip]], cutoff_time)
        id3 == NewRef((Range(r2) \ {id2}) \cup UNION {HeldBy(lc, th) : th \in Threads})
        r3 == DictSet(r2, client_ip, id3)
        h3 == [h2 EXCEPT ![id3] = kept]
        out == CheckAndRecord(h3[r3[client_ip]], current_time, max)
        h4 == [h3 EXCEPT ![r3[client_ip]] = out.timestamps]
    IN  [requests |-> r3, heap |-> h4, ret |-> out.ret, cutoff_time |-> cutoff_time]

----------------------------------------------------------------------------
(* DataCache *)

\* ttl_minutes * 60
TtlSeconds(ttl_minutes) == ttl_minutes * 60

\* one file for every key
CacheFile_Shared(key) == "cache.json"

\* self.cache_dir / f"{key}.json"
CacheFile(key) == key \o ".json"

\* the Python value None
PyNone == [kind |-> "None"]

\* json.dump(data, f, default=str): the text written for a dictionary, as the
\* sequence of its tokens; the text of a data dictionary is longer the more
\* rows it holds
JsonDump(data) ==
    IF "error" \in DOMAIN data
    THEN << <<"{">>, <<"error", data.error>>, <<"}">> >>
    ELSE << <<"{">>,
            <<"endpoint", data.endpoint>>,
            <<"params", data.params>>,
            <<"rows", data.rows>> >>
         \o [i \in 1 .. data.rows |-> <<"row", i>>]
         \o << <<"timestamp", data.timestamp>>, <<"}">> >>

\* json.load(f): the dictionary a complete text stands for; JSONDecodeError on
\* an empty or truncated text and on a text with bytes after its end
JsonLoad(text) ==
    LET n == Len(text)
    IN  IF /\ n >= 6
           /\ text[1] = <<"{">> /\ text[n] = <<"}">>
           /\ \A i \in 2 .. (n - 1) : Len(text[i]) = 2
           /\ text[2][1] = "endpoint" /\ text[3][1] = "params"
           /\ text[4][1] = "rows" /\ n = 6 + text[4][2]
           /\ \A i \in 1 .. text[4][2] : text[4 + i] = <<"row", i>>
           /\ text[n - 1][1] = "timestamp"
        THEN [ok |-> TRUE,
              value |-> [kind |-> "dict", endpoint |-> text[2][2],
                         params |-> text[3][2], rows |-> text[4][2],
                         timestamp |-> text[n - 1][2]]]
        ELSE IF /\ n = 3
                /\ text[1] = <<"{">> /\ text[3] = <<"}">>
                /\ Len(text[2]) = 2 /\ text[2][1] = "error"
        THEN [ok |-> TRUE, value |-> [kind |-> "dict", error |-> text[2][2]]]
        ELSE [ok |-> FALSE, value |-> PyNone]

\* an expiry test that is closed at the end of the entry's life
Expired_Inclusive(now, mtime, ttl) == now - mtime >= ttl

\* time.time() - cache_file.stat().st_mtime > self.ttl_seconds
Expired(now, mtime, ttl) == now - mtime > ttl

\* an expired entry that is reported absent and left on disk
Unlink_Keep(fs, name) == fs

\* cache_file.unlink()
Unlink(fs, name) == [x \in DOMAIN fs \ {name} |-> fs[x]]

\* a get whose hit renews the entry's write time (sliding expiration)
DataCacheGet_Touch(fs, key, now, ttl) ==
    LET cache_file == CacheFile(key)
    IN  IF cache_file \notin DOMAIN fs
        THEN [files |-> fs, value |-> PyNone]
        ELSE IF Expired(now, fs[cache_file].mtime, ttl)
        THEN [files |-> Unlink(fs, cache_file), value |-> PyNone]
        ELSE LET loaded == JsonLoad(fs[cache_file].content)
             IN  [files |-> [fs EXCEPT ![cache_file].mtime = now],
                  value |-> IF loaded.ok THEN loaded.value ELSE PyNone]

\* DataCache.get(key): the directory afterwards and the value returned
DataCacheGet(fs, key, now, ttl) ==
    LET cache_file == CacheFile(key)
    IN  IF cache_file \notin DOMAIN fs
        THEN [files |-> fs, value |-> PyNone]
        ELSE IF Expired(now, fs[cache_file].mtime, ttl)
        THEN [files |-> Unlink(fs, cache_file), value |-> PyNone]
        ELSE LET loaded == JsonLoad(fs[cache_file].content)
             IN  [files |-> fs,
                  value |-> IF loaded.ok THEN loaded.value ELSE PyNone]

\* a set that writes nothing
DataCacheSet_Skip(fs, key, data, now) == fs

\* DataCache.set(key, data): open(cache_file, 'w') and json.dump
DataCacheSet(fs, key, data, now) ==
    DictSet(fs, CacheFile(key), [mtime |-> now, content |-> JsonDump(data)])

\* the storage behaving as expected
NoFault == "none"

\* a byte of a file that is not valid in the encoding open(cache_file, 'r')
\* decodes with
InvalidByte == <<"0xFF">>

\* f.read() of a text file decodes its bytes; UnicodeDecodeError otherwise
Decodable(content) == \A i \in DOMAIN content : content[i] # InvalidByte

\* what the storage can do to a get: nothing, or an OSError raised by stat,
\* unlink, open or read
GetFaults == {NoFault, "OSError"}

\* what the storage can do to a set: nothing, an OSError raised by open, or
\* an OSError raised while the text is written, the file then being empty
\* or holding the beginning of the text
SetFaults == {NoFault, "open", "truncated", "partial"}

\* DataCache.get(key) on a storage that can fail: the except clause catches
\* json.JSONDecodeError and OSError and returns None; another exception is
\* raised to the caller
DataCacheGetIO(fs, key, now, ttl, fault) ==
    LET cache_file == CacheFile(key)
        get == DataCacheGet(fs, key, now, ttl)
    IN  IF cache_file \notin DOMAIN fs
        THEN [files |-> fs, value |-> PyNone, raised |-> FALSE]
        ELSE IF fault = "OSError"
        THEN [files |-> fs, value |-> PyNone, raised |-> FALSE]
        ELSE IF ~Expired(now, fs[cache_file].mtime, ttl)
                /\ ~Decodable(fs[cache_file].content)
        THEN [files |-> fs, value |-> PyNone, raised |-> TRUE]
        ELSE [files |-> get.files, value |-> get.value, raised |-> FALSE]

\* DataCache.set(key, data) on a storage that can fail: OSError is caught
DataCacheSetIO(fs, key, data, now, fault) ==
    CASE fault = "open" -> fs
      [] fault = "truncated" ->
            DictSet(fs, CacheFile(key), [mtime |-> now, content |-> <<>>])
      [] fault = "partial" ->
            DictSet(fs, CacheFile(key),
                    [mtime |-> now, content |-> SubSeq(JsonDump(data), 1, 3)])
      [] OTHER -> DataCacheSet(fs, key, data, now)

----------------------------------------------------------------------------
(* create_app: the decorator require_rate_limit and the endpoint handlers *)

\* a query argument that is absent (request.args.get gives None)
NoArg == ""

\* the truth value of a string or None
Truthy(s) == s # NoArg

\* request.environ.get('HTTP_X_FORWARDED_FOR', request.remote_addr)
ClientIp(conn) ==
    IF conn.has_forwarded_for THEN conn.forwarded_for ELSE conn.remote_addr

ValidDecades ==
    {"1920s", "1930s", "1940s", "1950s", "1960s", "1970s",
     "1980s", "1990s", "2000s", "2010s", "2020s"}

\* a validation that accepts every decade
ValidateDecade_Any(decade) == TRUE

\* validate_decade
ValidateDecade(decade) == decade \in ValidDecades

ValidMarkets == {"NYSE", "Frankfurt", "Tokyo", "Hong Kong"}

\* validate_market
ValidateMarket(market) == market \in ValidMarkets

\* str.upper() on the symbols of the model
Upper(symbol) ==
    CASE symbol = "aapl" -> "AAPL"
      [] symbol = "Aapl" -> "AAPL"
      [] symbol = "ibm" -> "IBM"
      [] OTHER -> symbol

\* str.lower() on the formats of the model
Lower(format) ==
    CASE format = "JSON" -> "json"
      [] format = "CSV" -> "csv"
      [] OTHER -> format

\* request.args.get('format', 'csv').lower()
FormatType(req) == IF req.format = NoArg THEN "csv" ELSE Lower(req.format)

\* int(request.args.get('limit', 10)) raises ValueError
LimitRaises(req) == req.limit \notin {NoArg, "5", "10", "50", "100"}

\* int(request.args.get('limit', 10))
LimitArg(req) ==
    CASE req.limit = NoArg -> 10
      [] req.limit = "5" -> 5
      [] req.limit = "10" -> 10
      [] req.limit = "50" -> 50
      [] req.limit = "100" -> 100

\* a limit that is not capped
Limit_Uncapped(req) == LimitArg(req)

\* min(int(request.args.get('limit', 10)), 50)
Limit(req) == IF LimitArg(req) < 50 THEN LimitArg(req) ELSE 50

\* decade or 'all'
OrAll(arg) == IF Truthy(arg) THEN arg ELSE "all"

\* the validation of each handler, in the order of its tests: the error
\* message of the 400 response, NoArg when the parameters pass
ValidationError(req) ==
    CASE req.endpoint = "decade" ->
            IF ~ValidateDecade(req.decade) THEN "Invalid decade parameter"
            ELSE NoArg
      [] req.endpoint = "market" ->
            IF ~ValidateMarket(req.market) THEN "Invalid market parameter"
            ELSE IF Truthy(req.decade) /\ ~ValidateDecade(req.decade)
            THEN "Invalid decade parameter"
            ELSE NoArg
      [] req.endpoint = "stock" ->
            IF ~Truthy(req.symbol) \/ Len(req.symbol) > 10
            THEN "Invalid symbol parameter"
            ELSE NoArg
      [] req.endpoint \in {"top_performers", "statistics"} ->
            IF Truthy(req.decade) /\ ~ValidateDecade(req.decade)
            THEN "Invalid decade parameter"
            ELSE IF Truthy(req.market) /\ ~ValidateMarket(req.market)
            THEN "Invalid market parameter"
            ELSE NoArg
      [] req.endpoint = "export" ->
            IF FormatType(req) \notin {"csv", "json"}
            THEN "Invalid format. Use csv or json"
            ELSE IF Truthy(req.decade) /\ ~ValidateDecade(req.decade)
            THEN "Invalid decade parameter"
            ELSE IF Truthy(req.market) /\ ~ValidateMarket(req.market)
            THEN "Invalid market parameter"
            ELSE NoArg
      [] OTHER -> NoArg

\* every handler but export_data looks its response up in the cache
UsesCache(endpoint) == endpoint # "export"

\* the cache_key of each handler
CacheKey(req) ==
    CASE req.endpoint = "decades" -> "decades_list"
      [] req.endpoint = "markets" -> "markets_list"
      [] req.endpoint = "decade" -> "decade_" \o req.decade
      [] req.endpoint = "market" ->
            "market_" \o req.market \o "_" \o OrAll(req.decade)
      [] req.endpoint = "stock" -> "stock_" \o Upper(req.symbol)
      [] req.endpoint = "top_performers" ->
            "top_performers_" \o OrAll(req.decade) \o "_" \o OrAll(req.market)
                \o "_" \o ToString(Limit(req))
      [] req.endpoint = "statistics" ->
            "statistics_" \o OrAll(req.decade) \o "_" \o OrAll(req.market)

\* handlers that never test for an empty result
NoDataIs404_Never(endpoint) == FALSE

\* the handlers that answer 404 when the query gives no row
NoDataIs404(endpoint) == endpoint \in {"decade", "market", "stock", "export"}

\* the parameters a response dictionary repeats
Params(req) ==
    [decade |-> IF req.endpoint \in {"decades", "markets", "stock"}
                THEN NoArg ELSE req.decade,
     market |-> IF req.endpoint \in {"decades", "markets", "decade", "stock"}
                THEN NoArg ELSE req.market,
     symbol |-> IF req.endpoint = "stock" THEN Upper(req.symbol) ELSE NoArg,
     limit |-> IF req.endpoint = "top_performers" THEN Limit(req) ELSE 0]

\* the data dictionary of a successful handler, generated at time now
Data(req, rows, now) ==
    [kind |-> "dict", endpoint |-> req.endpoint, params |-> Params(req),
     rows |-> rows, timestamp |-> now]

\* jsonify({'error': message})
ErrorBody(message) == [kind |-> "dict", error |-> message]

\* the handler behind the decorator up to its query of the data store: the
\* cache directory afterwards and, when the handler returns before the query
\* (done), its response
\* fault is what the storage does to the cache lookup; an exception the
\* handler does not catch is answered by the errorhandler(500)
BeforeQueryIO(fs, req, now, ttl, fault) ==
    LET message == ValidationError(req)
        looked == UsesCache(req.endpoint)
        got == IF looked
               THEN DataCacheGetIO(fs, CacheKey(req), now, ttl, fault)
               ELSE [files |-> fs, value |-> PyNone, raised |-> FALSE]
    IN  IF req.endpoint = "top_performers" /\ LimitRaises(req)
        THEN [done |-> TRUE, files |-> fs, status |-> 500,
              body |-> ErrorBody("Internal server error"),
              cache_get |-> FALSE, cache_set |-> FALSE, queried |-> FALSE]
        ELSE IF message # NoArg
        THEN [done |-> TRUE, files |-> fs, status |-> 400,
              body |-> ErrorBody(message),
              cache_get |-> FALSE, cache_set |-> FALSE, queried |-> FALSE]
        ELSE IF looked /\ got.raised
        THEN [done |-> TRUE, files |-> got.files, status |-> 500,
              body |-> ErrorBody("Internal server error"),
              cache_get |-> TRUE, cache_set |-> FALSE, queried |-> FALSE]
        ELSE IF looked /\ got.value # PyNone
        THEN [done |-> TRUE, files |-> got.files, status |-> 200,
              body |-> got.value,
              cache_get |-> TRUE, cache_set |-> FALSE, queried |-> FALSE]
        ELSE [done |-> FALSE, files |-> got.files, status |-> 0,
              body |-> PyNone,
              cache_get |-> looked, cache_set |-> FALSE, queried |-> FALSE]

\* the handler up to its query, the storage behaving as expected
BeforeQuery(fs, req, now, ttl) == BeforeQueryIO(fs, req, now, ttl, NoFault)

\* the handler from its query of the data store on; db is what the data
\* store answers, fault what the storage does to the cache write
AfterQueryIO(fs, req, now, db, fault) ==
    LET looked == UsesCache(req.endpoint)
        data == IF req.endpoint = "export"
                THEN [kind |-> "file", format |-> FormatType(req), rows |-> db.rows]
                ELSE Data(req, db.rows, now)
    IN  IF ~db.ok
        THEN [done |-> TRUE, files |-> fs, status |-> 500,
              body |-> ErrorBody("Failed to fetch"),
              cache_get |-> looked, cache_set |-> FALSE, queried |-> TRUE]
        ELSE IF db.rows = 0 /\ NoDataIs404(req.endpoint)
        THEN [done |-> TRUE, files |-> fs, status |-> 404,
              body |-> ErrorBody("No data found"),
              cache_get |-> looked, cache_set |-> FALSE, queried |-> TRUE]
        ELSE [done |-> TRUE,
              files |-> IF looked
                        THEN DataCacheSetIO(fs, CacheKey(req), data, now, fault)
                        ELSE fs,
              status |-> 200, body |-> data,
              cache_get |-> looked, cache_set |-> looked, queried |-> TRUE]

\* the handler from its query on, the storage behaving as expected
AfterQuery(fs, req, now, db) == AfterQueryIO(fs, req, now, db, NoFault)

\* f'Maximum {app.config["RATE_LIMIT_REQUESTS"]} requests per
\* {app.config["RATE_LIMIT_WINDOW"]} minutes'
RateLimitMessage(limit, window_minutes) ==
    "Maximum " \o ToString(limit) \o " requests per "
        \o ToString(window_minutes) \o " minutes"

\* a decorator that drops the cache when it rejects a request
RateLimitExceeded_ClearsCache(fs, limit, window_minutes) ==
    [done |-> TRUE, files |-> [x \in {} |-> 0], status |-> 429,
     body |-> [kind |-> "dict", error |-> "Rate limit exceeded",
               message |-> RateLimitMessage(limit, window_minutes)],
     cache_get |-> FALSE, cache_set |-> FALSE, queried |-> FALSE]

\* the response of the decorator to a request that is not allowed
RateLimitExceeded(fs, limit, window_minutes) ==
    [done |-> TRUE, files |-> fs, status |-> 429,
     body |-> [kind |-> "dict", error |-> "Rate limit exceeded",
               message |-> RateLimitMessage(limit, window_minutes)],
     cache_get |-> FALSE, cache_set |-> FALSE, queried |-> FALSE]

----------------------------------------------------------------------------
(* State *)

NoLocal == [client_ip |-> "none", current_time |-> 0, cutoff_time |-> 0,
            newdict |-> EmptyDict, filtered |-> <<>>]

NoCall == [client_ip |-> "none", current_time |-> 0, cutoff_time |-> 0,
           ret |-> FALSE]

\* RateLimiter.__init__ as called by create_app
InitLimiter ==
    /\ max_requests \in MaxRequestsChoices
    /\ window_seconds \in {WindowSeconds(m) : m \in WindowMinutesChoices}
    /\ requests = EmptyDict
    /\ heap = [id \in ListIds |-> <<>>]

\* DataCache.__init__ as called by create_app, on an empty cache directory
InitCache ==
    /\ ttl_seconds \in {TtlSeconds(m) : m \in TtlMinutesChoices}
    /\ files = EmptyDict

NoRequest ==
    [endpoint |-> "none", decade |-> NoArg, market |-> NoArg, symbol |-> NoArg,
     format |-> NoArg, limit |-> NoArg]

NoResponse ==
    [client_ip |-> "none", req |-> NoRequest, status |-> 0, body |-> PyNone,
     cache_get |-> FALSE, cache_set |-> FALSE, queried |-> FALSE]

NoGet == [key |-> "none", time |-> 0, value |-> PyNone]

Init ==
    /\ clock = 0
    /\ InitLimiter
    /\ InitCache
    /\ pc = [th \in Threads |-> "idle"]
    /\ local = [th \in Threads |-> NoLocal]
    /\ calls = 0
    /\ last = NoCall
    /\ admitted = [c \in Clients |-> <<>>]
    /\ written = EmptyDict
    /\ lastGet = NoGet
    /\ gets = 0
    /\ response = NoResponse

\* time passes
Tick(max_time, steps) ==
    /\ \E d \in steps :
        /\ clock + d <= max_time
        /\ clock' = clock + d
    /\ UNCHANGED <<limiterSide, cacheSide, response>>

\* the ghost record of a call that returned
Returned(client_ip, current_time, cutoff_time, ret) ==
    /\ last' = [client_ip |-> client_ip, current_time |-> current_time,
                cutoff_time |-> cutoff_time, ret |-> ret]
    /\ admitted' = IF ret = TRUE
                   THEN [admitted EXCEPT ![client_ip] = Append(@, current_time)]
                   ELSE admitted

\* one whole is_allowed(client_ip) call, no other call in progress
IsAllowed(client_ip) ==
    /\ calls < MaxCalls
    /\ \A th \in Threads : pc[th] = "idle"
    /\ LET res == IsAllowedResult(requests, heap, local, client_ip, clock,
                                  max_requests, window_seconds)
       IN  /\ requests' = res.requests
           /\ heap' = Collect(res.heap, res.requests, local)
           /\ Returned(client_ip, clock, res.cutoff_time, res.ret)
    /\ calls' = calls + 1
    /\ UNCHANGED <<clock, cacheSide, response, max_requests, window_seconds, threadVars>>

NextLimiter ==
    \/ Tick(MaxTime, TickSteps)
    \/ \E c \in Clients : IsAllowed(c)

\* the limiter called by one request at a time
SpecLimiter == Init /\ [][NextLimiter]_vars

----------------------------------------------------------------------------
(* The limiter constructed from any configured window *)

\* values of RATE_LIMIT_WINDOW (minutes) that int(os.environ.get(...)) or a
\* config dictionary can give
ConfigWindowMinutes == {-1, 0, 1}

\* RateLimiter.__init__ as called by create_app with any of these windows
InitAnyWindow ==
    /\ clock = 0
    /\ max_requests \in MaxRequestsChoices
    /\ window_seconds \in {WindowSeconds(m) : m \in ConfigWindowMinutes}
    /\ requests = EmptyDict
    /\ heap = [id \in ListIds |-> <<>>]
    /\ InitCache
    /\ pc = [th \in Threads |-> "idle"]
    /\ local = [th \in Threads |-> NoLocal]
    /\ calls = 0
    /\ last = NoCall
    /\ admitted = [c \in Clients |-> <<>>]
    /\ written = EmptyDict
    /\ lastGet = NoGet
    /\ gets = 0
    /\ response = NoResponse

\* the limiter, whatever its window, called by one request at a time
SpecAnyWindow == InitAnyWindow /\ [][NextLimiter]_vars

----------------------------------------------------------------------------
(* is_allowed statement by statement, for requests served by concurrent    *)
(* threads: the threads interleave between the statements of lines 42-67   *)

\* a request thread enters is_allowed: current_time = time.time() and
\* cutoff_time = current_time - self.window_seconds
Start(th, client_ip) ==
    /\ pc[th] = "idle"
    /\ calls < MaxThreadCalls
    /\ calls' = calls + 1
    /\ local' = [local EXCEPT ![th] =
                    [client_ip |-> client_ip, current_time |-> clock,
                     cutoff_time |-> CutoffTime(clock, window_seconds),
                     newdict |-> EmptyDict, filtered |-> <<>>]]
    /\ pc' = [pc EXCEPT ![th] = "clean"]
    /\ UNCHANGED <<clock, cacheSide, response, limiterVars, last, admitted>>

\* the dictionary comprehension of lines 46-49 is evaluated
Clean(th) ==
    /\ pc[th] = "clean"
    /\ local' = [local EXCEPT ![th].newdict =
                    CleanOldEntries(requests, heap, local[th].cutoff_time)]
    /\ pc' = [pc EXCEPT ![th] = "assign"]
    /\ UNCHANGED <<clock, cacheSide, response, limiterVars, ghostVars>>

\* self.requests = <the new dictionary>
Assign(th) ==
    /\ pc[th] = "assign"
    /\ requests' = local[th].newdict
    /\ local' = [local EXCEPT ![th].newdict = EmptyDict]
    /\ heap' = Collect(heap, requests', local')
    /\ pc' = [pc EXCEPT ![th] = "ensure"]
    /\ UNCHANGED <<clock, cacheSide, response, max_requests, window_seconds, ghostVars>>

\* if client_ip not in self.requests: self.requests[client_ip] = []
Ensure(th) ==
    /\ pc[th] = "ensure"
    /\ IF local[th].client_ip \notin DOMAIN requests
       THEN LET id == NewRef(Reachable(requests, local))
            IN  /\ requests' = DictSet(requests, local[th].client_ip, id)
                /\ heap' = [heap EXCEPT ![id] = <<>>]
       ELSE UNCHANGED <<requests, heap>>
    /\ pc' = [pc EXCEPT ![th] = "filter"]
    /\ UNCHANGED <<clock, cacheSide, response, max_requests, window_seconds, local, ghostVars>>

\* the list comprehension of lines 56-59 is evaluated; self.requests[client_ip]
\* raises KeyError when another thread's dictionary has replaced the entry
Filter(th) ==
    /\ pc[th] = "filter"
    /\ IF local[th].client_ip \in DOMAIN requests
       THEN /\ local' = [local EXCEPT ![th].filtered =
                RemoveOldTimestamps(heap[requests[local[th].client_ip]],
                                    local[th].cutoff_time)]
            /\ pc' = [pc EXCEPT ![th] = "store"]
       ELSE /\ pc' = [pc EXCEPT ![th] = "idle"]
            /\ local' = [local EXCEPT ![th] = NoLocal]
    /\ UNCHANGED <<clock, cacheSide, response, limiterVars, ghostVars>>

\* self.requests[client_ip] = <the new list>
Store(th) ==
    /\ pc[th] = "store"
    /\ LET c == local[th].client_ip
           others == [ip \in DOMAIN requests \ {c} |-> requests[ip]]
           id == NewRef(Reachable(others, local))
       IN  /\ requests' = DictSet(requests, c, id)
           /\ local' = [local EXCEPT ![th].filtered = <<>>]
           /\ heap' = Collect([heap EXCEPT ![id] = local[th].filtered],
                              requests', local')
    /\ pc' = [pc EXCEPT ![th] = "check"]
    /\ UNCHANGED <<clock, cacheSide, response, max_requests, window_seconds, ghostVars>>

\* if len(self.requests[client_ip]) >= self.max_requests: return False
Check(th) ==
    /\ pc[th] = "check"
    /\ IF local[th].client_ip \in DOMAIN requests
       THEN IF AtLimit(heap[requests[local[th].client_ip]], max_requests)
            THEN /\ pc' = [pc EXCEPT ![th] = "idle"]
                 /\ Returned(local[th].client_ip, local[th].current_time,
                             local[th].cutoff_time, FALSE)
            ELSE /\ pc' = [pc EXCEPT ![th] = "append"]
                 /\ UNCHANGED <<last, admitted>>
       ELSE /\ pc' = [pc EXCEPT ![th] = "idle"]
            /\ UNCHANGED <<last, admitted>>
    /\ local' = IF pc'[th] = "idle" THEN [local EXCEPT ![th] = NoLocal] ELSE local
    /\ UNCHANGED <<clock, cacheSide, response, limiterVars, calls>>

\* self.requests[client_ip].append(current_time); return True
AppendTime(th) ==
    /\ pc[th] = "append"
    /\ IF local[th].client_ip \in DOMAIN requests
       THEN /\ heap' = [heap EXCEPT ![requests[local[th].client_ip]] =
                            Append(@, local[th].current_time)]
            /\ Returned(local[th].client_ip, local[th].current_time,
                        local[th].cutoff_time, TRUE)
       ELSE UNCHANGED <<heap, last, admitted>>
    /\ pc' = [pc EXCEPT ![th] = "idle"]
    /\ local' = [local EXCEPT ![th] = NoLocal]
    /\ UNCHANGED <<clock, cacheSide, response, max_requests, window_seconds, requests, calls>>

NextThreads ==
    \/ Tick(MaxThreadTime, TickSteps)
    \/ \E th \in Threads, c \in Clients : Start(th, c)
    \/ \E th \in Threads : Clean(th)
    \/ \E th \in Threads : Assign(th)
    \/ \E th \in Threads : Ensure(th)
    \/ \E th \in Threads : Filter(th)
    \/ \E th \in Threads : Store(th)
    \/ \E th \in Threads : Check(th)
    \/ \E th \in Threads : AppendTime(th)

\* the limiter called by the threads of a threaded server
SpecThreads == Init /\ [][NextThreads]_vars

----------------------------------------------------------------------------
(* DataCache called directly, one call at a time *)

CacheKeys == {"decades_list", "market_NYSE_1920s"}

\* the response dictionaries stored under a key at the current time
CacheValues(key) ==
    {[kind |-> "dict", endpoint |-> key, params |-> "", rows |-> n,
      timestamp |-> clock] : n \in {1, 2}}

\* cache.set(key, data)
CacheSetCall(key, data) ==
    /\ files' = DataCacheSet(files, key, data, clock)
    /\ written' = DictSet(written, key, [time |-> clock, value |-> data])
    /\ UNCHANGED <<clock, limiterSide, response, ttl_seconds, lastGet, gets>>

\* cache.get(key)
CacheGetCall(key) ==
    /\ gets < MaxGets
    /\ gets' = gets + 1
    /\ LET res == DataCacheGet(files, key, clock, ttl_seconds)
       IN  /\ files' = res.files
           /\ lastGet' = [key |-> key, time |-> clock, value |-> res.value]
    /\ UNCHANGED <<clock, limiterSide, response, ttl_seconds, written>>

NextCache ==
    \/ Tick(MaxTime, TickSteps)
    \/ \E k \in CacheKeys : \E v \in CacheValues(k) : CacheSetCall(k, v)
    \/ \E k \in CacheKeys : CacheGetCall(k)

SpecCache == Init /\ [][NextCache]_vars

----------------------------------------------------------------------------
(* A cached handler (get_decades, lines 256-280) run by concurrent         *)
(* threads, DataCache.get and DataCache.set statement by statement: the    *)
(* threads interleave between the file operations of lines 99-124          *)

\* a byte of a file that was never written: a write beyond the end of a file
\* leaves zero bytes before it
NulByte == <<"0x00">>

\* write(fd, tokens) at the position offset of a file opened without
\* O_APPEND: the tokens replace what the file holds there, the rest of the
\* file stays
WriteAt(content, offset, tokens) ==
    LET end == offset + Len(tokens)
        size == IF Len(content) > end THEN Len(content) ELSE end
    IN  [i \in 1 .. size |->
            IF i > offset /\ i <= end THEN tokens[i - offset]
            ELSE IF i <= Len(content) THEN content[i]
            ELSE NulByte]

\* the local variables of a thread that runs a handler
HandlerLocal(key, data, linked) == [key |-> key, data |-> data, linked |-> linked]

\* the ghost record of a get that returned; the handler returns the cached
\* data (if cached_data: return jsonify(cached_data)) or goes on to its query
GetReturned(th, key, value) ==
    /\ lastGet' = [key |-> key, time |-> clock, value |-> value]
    /\ gets' = gets + 1
    /\ IF value = PyNone
       THEN /\ pc' = [pc EXCEPT ![th] = "query"]
            /\ local' = [local EXCEPT ![th] = HandlerLocal(key, PyNone, FALSE)]
       ELSE /\ pc' = [pc EXCEPT ![th] = "idle"]
            /\ local' = [local EXCEPT ![th] = NoLocal]

\* a request thread enters the handler and get: if not cache_file.exists():
\* return None
GetExists(th, key) ==
    /\ pc[th] = "idle"
    /\ calls < MaxCacheCalls
    /\ calls' = calls + 1
    /\ IF CacheFile(key) \in DOMAIN files
       THEN /\ pc' = [pc EXCEPT ![th] = "stat"]
            /\ local' = [local EXCEPT ![th] = HandlerLocal(key, PyNone, FALSE)]
            /\ UNCHANGED <<lastGet, gets>>
       ELSE GetReturned(th, key, PyNone)
    /\ UNCHANGED <<clock, limiterVars, last, admitted, response, cacheVars, written>>

\* get: time.time() - cache_file.stat().st_mtime > self.ttl_seconds; stat
\* raises FileNotFoundError, an OSError, when the file is gone
GetStat(th) ==
    /\ pc[th] = "stat"
    /\ LET cache_file == CacheFile(local[th].key)
       IN  IF cache_file \notin DOMAIN files
           THEN GetReturned(th, local[th].key, PyNone)
           ELSE /\ pc' = [pc EXCEPT ![th] =
                            IF Expired(clock, files[cache_file].mtime, ttl_seconds)
                            THEN "unlink" ELSE "read"]
                /\ UNCHANGED <<local, lastGet, gets>>
    /\ UNCHANGED <<clock, limiterVars, ghostVars, response, cacheVars, written>>

\* get: cache_file.unlink(); return None. The file leaves the directory; a
\* thread that holds it open goes on writing to a file no name leads to
GetUnlink(th) ==
    /\ pc[th] = "unlink"
    /\ files' = Unlink(files, CacheFile(local[th].key))
    /\ lastGet' = [key |-> local[th].key, time |-> clock, value |-> PyNone]
    /\ gets' = gets + 1
    /\ pc' = [pc EXCEPT ![th] = "query"]
    /\ local' = [o \in Threads |->
                    IF o # th /\ pc[o] \in {"dump", "close"}
                       /\ local[o].key = local[th].key
                    THEN [local[o] EXCEPT !.linked = FALSE]
                    ELSE local[o]]
    /\ UNCHANGED <<clock, limiterVars, ghostVars, response, ttl_seconds, written>>

\* get: with open(cache_file, 'r') as f: return json.load(f)
GetRead(th) ==
    /\ pc[th] = "read"
    /\ LET cache_file == CacheFile(local[th].key)
           loaded == IF cache_file \in DOMAIN files
                     THEN JsonLoad(files[cache_file].content)
                     ELSE [ok |-> FALSE, value |-> PyNone]
       IN  GetReturned(th, local[th].key,
                       IF loaded.ok THEN loaded.value ELSE PyNone)
    /\ UNCHANGED <<clock, limiterVars, ghostVars, response, cacheVars, written>>

\* the query of the data store fails or, where the handler tests it, gives no
\* row: the handler returns without a set
HandlerFails(th) ==
    /\ pc[th] = "query"
    /\ pc' = [pc EXCEPT ![th] = "idle"]
    /\ local' = [local EXCEPT ![th] = NoLocal]
    /\ UNCHANGED <<clock, limiterVars, ghostVars, response, cacheSide>>

\* the query gives data and set begins: open(cache_file, 'w') creates the
\* file or empties it
SetOpen(th, key, data) ==
    /\ pc[th] = "query"
    /\ local[th].key = key
    /\ files' = DictSet(files, CacheFile(local[th].key),
                        [mtime |-> clock, content |-> <<>>])
    /\ local' = [local EXCEPT ![th] = HandlerLocal(local[th].key, data, TRUE)]
    /\ pc' = [pc EXCEPT ![th] = "dump"]
    /\ UNCHANGED <<clock, limiterVars, ghostVars, response, ttl_seconds,
                   cacheGhostVars>>

\* set: json.dump has written the beginning of the text through the file's
\* buffer
SetWrite(th) ==
    /\ pc[th] = "dump"
    /\ LET cache_file == CacheFile(local[th].key)
       IN  files' = IF local[th].linked
                    THEN [files EXCEPT ![cache_file] =
                            [mtime |-> clock,
                             content |-> WriteAt(@.content, 0,
                                    SubSeq(JsonDump(local[th].data), 1, 3))]]
                    ELSE files
    /\ pc' = [pc EXCEPT ![th] = "close"]
    /\ UNCHANGED <<clock, limiterVars, ghostVars, local, response, ttl_seconds,
                   cacheGhostVars>>

\* set: the with block closes the file, what is left of the text is written
\* and the handler returns
SetClose(th) ==
    /\ pc[th] \in {"dump", "close"}
    /\ LET cache_file == CacheFile(local[th].key)
           text == JsonDump(local[th].data)
           offset == IF pc[th] = "dump" THEN 0 ELSE 3
       IN  files' = IF local[th].linked
                    THEN [files EXCEPT ![cache_file] =
                            [mtime |-> clock,
                             content |-> WriteAt(@.content, offset,
                                    SubSeq(text, offset + 1, Len(text)))]]
                    ELSE files
    /\ written' = DictSet(written, local[th].key,
                          [time |-> clock, value |-> local[th].data])
    /\ pc' = [pc EXCEPT ![th] = "idle"]
    /\ local' = [local EXCEPT ![th] = NoLocal]
    /\ UNCHANGED <<clock, limiterVars, ghostVars, response, ttl_seconds,
                   lastGet, gets>>

NextCacheThreads ==
    \/ Tick(MaxRequestTime, RequestTickSteps)
    \/ \E th \in Threads, k \in CacheKeys : GetExists(th, k)
    \/ \E th \in Threads : GetStat(th)
    \/ \E th \in Threads : GetUnlink(th)
    \/ \E th \in Threads : GetRead(th)
    \/ \E th \in Threads : HandlerFails(th)
    \/ \E th \in Threads, k \in CacheKeys :
        \E v \in CacheValues(k) : SetOpen(th, k, v)
    \/ \E th \in Threads : SetWrite(th)
    \/ \E th \in Threads : SetClose(th)

\* the cache called by the handlers of a threaded server
SpecCacheThreads == Init /\ [][NextCacheThreads]_vars

----------------------------------------------------------------------------
(* Whole requests, one at a time *)

Req(endpoint, decade, market, symbol, format, limit) ==
    [endpoint |-> endpoint, decade |-> decade, market |-> market,
     symbol |-> symbol, format |-> format, limit |-> limit]

\* the requests sent: every endpoint, with recognised and unrecognised
\* parameters
Requests ==
    {Req("decades", NoArg, NoArg, NoArg, NoArg, NoArg),
     Req("markets", NoArg, NoArg, NoArg, NoArg, NoArg),
     Req("decade", "1920s", NoArg, NoArg, NoArg, NoArg),
     Req("decade", "1890s", NoArg, NoArg, NoArg, NoArg),
     Req("market", "1920s", "NYSE", NoArg, NoArg, NoArg),
     Req("market", "1890s", "NYSE", NoArg, NoArg, NoArg),
     Req("stock", NoArg, NoArg, "aapl", NoArg, NoArg),
     Req("stock", NoArg, NoArg, "LONGSYMBOL11", NoArg, NoArg),
     Req("top_performers", NoArg, NoArg, NoArg, NoArg, "100"),
     Req("top_performers", "1920s", "LSE", NoArg, NoArg, "abc"),
     Req("statistics", "1920s", "NYSE", NoArg, NoArg, NoArg),
     Req("statistics", NoArg, "LSE", NoArg, NoArg, NoArg),
     Req("export", NoArg, "NYSE", NoArg, "JSON", NoArg),
     Req("export", "1920s", NoArg, NoArg, "xml", NoArg)}

\* the connections requests arrive on
Connections ==
    {[has_forwarded_for |-> FALSE, forwarded_for |-> NoArg, remote_addr |-> "A"],
     [has_forwarded_for |-> TRUE, forwarded_for |-> "B", remote_addr |-> "A"]}

\* what the data store answers to a query: an exception, no row, rows
DbAnswers ==
    {[ok |-> FALSE, rows |-> 0], [ok |-> TRUE, rows |-> 0], [ok |-> TRUE, rows |-> 1]}

\* the effect of a request of client_ip answered with out, is_allowed having
\* given lim
Respond(client_ip, req, lim, out) ==
    /\ requests' = lim.requests
    /\ heap' = Collect(lim.heap, lim.requests, local)
    /\ Returned(client_ip, clock, lim.cutoff_time, lim.ret)
    /\ files' = out.files
    /\ response' = [client_ip |-> client_ip, req |-> req,
                    status |-> out.status, body |-> out.body,
                    cache_get |-> out.cache_get, cache_set |-> out.cache_set,
                    queried |-> out.queried]

\* one request through the decorated handler, no other request in progress
Request(conn, req) ==
    /\ calls < MaxRequests
    /\ \A th \in Threads : pc[th] = "idle"
    /\ calls' = calls + 1
    /\ LET client_ip == ClientIp(conn)
           lim == IsAllowedResult(requests, heap, local, client_ip, clock,
                                  max_requests, window_seconds)
           pre == BeforeQuery(files, req, clock, ttl_seconds)
       IN  IF ~lim.ret
           THEN Respond(client_ip, req, lim,
                        RateLimitExceeded(files, max_requests,
                                          window_seconds \div 60))
           ELSE IF pre.done
           THEN Respond(client_ip, req, lim, pre)
           ELSE \E db \in DbAnswers :
                    Respond(client_ip, req, lim,
                            AfterQuery(pre.files, req, clock, db))
    /\ UNCHANGED <<clock, max_requests, window_seconds, threadVars,
                   ttl_seconds, cacheGhostVars>>

NextRequests ==
    \/ Tick(MaxRequestTime, RequestTickSteps)
    \/ \E conn \in Connections, req \in Requests : Request(conn, req)

\* the server answering one request at a time
Spec == Init /\ [][NextRequests]_vars

----------------------------------------------------------------------------
(* Whole requests, one at a time, on a storage that can fail and whose     *)
(* files can be damaged                                                    *)

FaultRequests ==
    {Req("decades", NoArg, NoArg, NoArg, NoArg, NoArg),
     Req("decade", "1920s", NoArg, NoArg, NoArg, NoArg)}

\* the ways the content of a cache file is damaged: its end is lost, or a
\* byte is changed to one that does not decode
Damages == {"cut", "byte"}

\* a cache file is damaged on the storage; its modification time stays
Corrupt(f, damage) ==
    /\ f \in DOMAIN files
    /\ Decodable(files[f].content) /\ JsonLoad(files[f].content).ok
    /\ files' = [files EXCEPT ![f].content =
                    IF damage = "cut" THEN SubSeq(@, 1, Len(@) - 1)
                    ELSE [@ EXCEPT ![2] = InvalidByte]]
    /\ UNCHANGED <<clock, limiterSide, response, ttl_seconds, cacheGhostVars>>

\* one request through the decorated handler; get_fault and set_fault are
\* what the storage does to the handler's cache.get and cache.set
FaultyRequest(conn, req, get_fault, set_fault) ==
    /\ calls < MaxRequests
    /\ \A th \in Threads : pc[th] = "idle"
    /\ calls' = calls + 1
    /\ LET client_ip == ClientIp(conn)
           lim == IsAllowedResult(requests, heap, local, client_ip, clock,
                                  max_requests, window_seconds)
           pre == BeforeQueryIO(files, req, clock, ttl_seconds, get_fault)
       IN  IF ~lim.ret
           THEN /\ get_fault = NoFault /\ set_fault = NoFault
                /\ Respond(client_ip, req, lim,
                           RateLimitExceeded(files, max_requests,
                                             window_seconds \div 60))
           ELSE IF pre.done
           THEN /\ set_fault = NoFault
                /\ Respond(client_ip, req, lim, pre)
           ELSE \E db \in DbAnswers :
                    Respond(client_ip, req, lim,
                            AfterQueryIO(pre.files, req, clock, db, set_fault))
    /\ UNCHANGED <<clock, max_requests, window_seconds, threadVars,
                   ttl_seconds, cacheGhostVars>>

NextFaults ==
    \/ Tick(MaxRequestTime, RequestTickSteps)
    \/ \E f \in DOMAIN files, damage \in Damages : Corrupt(f, damage)
    \/ \E conn \in Connections, req \in FaultRequests :
        \E get_fault \in GetFaults, set_fault \in SetFaults :
            FaultyRequest(conn, req, get_fault, set_fault)

\* the server answering one request at a time on a storage that can fail
SpecFaults == Init /\ [][NextFaults]_vars

----------------------------------------------------------------------------
(* The cache key of each handler, over the parameters that pass validation *)

KeyDecades == {"1920s", "1930s"}
KeyMarkets == {"NYSE", "Hong Kong"}
KeySymbols == {"aapl", "Aapl", "AAPL", "ibm"}
KeyLimits == {NoArg, "5", "10", "50", "100"}

\* requests to the seven handlers that use the cache, with every combination
\* of the parameters above that each handler reads
KeyRequests ==
    {Req("decades", d, NoArg, NoArg, NoArg, NoArg) : d \in {NoArg, "1920s"}}
    \cup {Req("markets", NoArg, m, NoArg, NoArg, NoArg) : m \in {NoArg, "NYSE"}}
    \cup {Req("decade", d, NoArg, NoArg, NoArg, NoArg) : d \in KeyDecades}
    \cup {Req("market", d, m, NoArg, NoArg, NoArg) :
            d \in KeyDecades \cup {NoArg}, m \in KeyMarkets}
    \cup {Req("stock", NoArg, NoArg, s, NoArg, NoArg) : s \in KeySymbols}
    \cup {Req("top_performers", d, m, NoArg, NoArg, l) :
            d \in KeyDecades \cup {NoArg}, m \in KeyMarkets \cup {NoArg},
            l \in KeyLimits}
    \cup {Req("statistics", d, m, NoArg, NoArg, NoArg) :
            d \in KeyDecades \cup {NoArg}, m \in KeyMarkets \cup {NoArg}}

\* a handler from its validation to its cache lookup:
\* cache_key = ...; cached_data = cache.get(cache_key)
KeyLookup(req) ==
    /\ gets < MaxGets
    /\ gets' = gets + 1
    /\ ValidationError(req) = NoArg
    /\ LET cache_key == CacheKey(req)
           res == DataCacheGet(files, cache_key, clock, ttl_seconds)
       IN  /\ files' = res.files
           /\ lastGet' = [key |-> cache_key, time |-> clock, value |-> res.value]
    /\ response' = [NoResponse EXCEPT !.req = req, !.cache_get = TRUE]
    /\ UNCHANGED <<clock, limiterSide, ttl_seconds, written>>

NextKeys ==
    \/ Tick(MaxRequestTime, RequestTickSteps)
    \/ \E req \in KeyRequests : KeyLookup(req)

\* the handlers computing their cache keys
SpecKeys == Init /\ [][NextKeys]_vars

----------------------------------------------------------------------------
(* Properties of the limiter, one request at a time (SpecLimiter) *)

Instants == 0 .. MaxTime

\* the number of admitted calls of client c with a timestamp in (lo, hi]
AdmittedIn(c, lo, hi) ==
    Cardinality({i \in DOMAIN admitted[c] :
                    admitted[c][i] > lo /\ admitted[c][i] <= hi})

\* the list the shared dictionary holds for client c, empty when it holds none
Tracked(c) == IF c \in DOMAIN requests THEN heap[requests[c]] ELSE <<>>

\* C1: for every client and every instant t, at most max_requests of the
\* client's admitted calls have a timestamp in (t - window_seconds, t]
C1_WindowBound ==
    \A c \in Clients : \A t \in Instants :
        AdmittedIn(c, t - window_seconds, t) <= max_requests

\* a client with max_requests = 2 admitted calls in the current window was
\* just rejected
C1_Witness ==
    /\ calls > 0
    /\ max_requests = 2
    /\ last.ret = FALSE
    /\ last.current_time = clock
    /\ AdmittedIn(last.client_ip, clock - window_seconds, clock) = 2

\* C5: a call at time t returns True exactly when fewer than max_requests of
\* the client's admitted timestamps are greater than t - window_seconds
C5_AdmitRule ==
    [][calls' = calls + 1 =>
        (last'.ret =
            (AdmittedIn(last'.client_ip, last'.current_time - window_seconds,
                        last'.current_time) < max_requests))]_vars

\* a client that was at its limit of 2 is admitted a third time, more than
\* window_seconds after its first and less than window_seconds after its
\* second admitted call
C5_Witness ==
    \E c \in Clients :
        /\ calls > 0
        /\ max_requests = 2
        /\ Len(admitted[c]) = 3
        /\ last.client_ip = c /\ last.ret = TRUE
        /\ last.current_time = admitted[c][3]
        /\ admitted[c][2] - admitted[c][1] < window_seconds
        /\ admitted[c][3] - admitted[c][1] > window_seconds
        /\ admitted[c][3] - admitted[c][2] < window_seconds

\* C6: a rejected call appends nothing: the client's list after the call is
\* its list before the call without the timestamps <= cutoff, and no
\* admission is recorded
C6_RejectRecordsNothing ==
    [][(calls' = calls + 1 /\ last'.ret = FALSE) =>
        LET c == last'.client_ip
            Unexpired(ts) == ts > last'.current_time - window_seconds
        IN  /\ c \in DOMAIN requests'
            /\ heap'[requests'[c]] = SelectSeq(Tracked(c), Unexpired)
            /\ admitted' = admitted]_vars

\* a client holding records was rejected
C6_Witness ==
    /\ calls > 0
    /\ last.ret = FALSE
    /\ max_requests >= 1
    /\ Len(Tracked(last.client_ip)) = max_requests

\* C7 as claimed: after a call, every recorded timestamp of every tracked
\* client is greater than the call's cutoff
C7_AllClientsPruned ==
    calls > 0 =>
        \A c \in DOMAIN requests : \A i \in DOMAIN heap[requests[c]] :
            heap[requests[c]][i] > last.cutoff_time

\* C7 amended: after a call, every recorded timestamp of the requesting
\* client is greater than the call's cutoff, and every other tracked client
\* has at least one recorded timestamp greater than the cutoff
C7_RequesterPruned ==
    calls > 0 =>
        \A c \in DOMAIN requests :
            IF c = last.client_ip
            THEN \A i \in DOMAIN heap[requests[c]] :
                    heap[requests[c]][i] > last.cutoff_time
            ELSE \E i \in DOMAIN heap[requests[c]] :
                    heap[requests[c]][i] > last.cutoff_time

\* after a call that expired records of its own client, another client is
\* still tracked and a client admitted earlier is no longer tracked
C7_Witness ==
    /\ calls > 0
    /\ last.cutoff_time >= 0
    /\ \E c \in Clients :
        /\ c # last.client_ip
        /\ admitted[c] # <<>>
        /\ c \notin DOMAIN requests
    /\ last.client_ip \in DOMAIN requests
    /\ Len(admitted[last.client_ip]) > Len(Tracked(last.client_ip))

\* C8 as claimed: after a call, for every max_requests, no tracked client
\* maps to an empty list
C8_NoEmptyEntry ==
    \A c \in DOMAIN requests : heap[requests[c]] # <<>>

\* C8 amended: after a call, a tracked client maps to an empty list only if
\* max_requests = 0 and it is the client of the call that was just rejected
C8_NoEmptyEntryButRejected ==
    \A c \in DOMAIN requests :
        heap[requests[c]] = <<>> => (max_requests = 0 /\ c = last.client_ip)

\* with max_requests >= 1, a client admitted earlier has lost its entry
\* through a call of another client
C8_Witness ==
    /\ calls > 0
    /\ max_requests >= 1
    /\ \E c \in Clients :
        /\ admitted[c] # <<>>
        /\ c \notin DOMAIN requests
        /\ last.client_ip # c
        /\ last.client_ip \in DOMAIN requests

----------------------------------------------------------------------------
(* Properties of the limiter under concurrent threads (SpecThreads) *)

\* the number of times ts occurs in the sequence seq
Occurrences(seq, ts) == Cardinality({i \in DOMAIN seq : seq[i] = ts})

\* C2: concurrent calls for one client never fill more than the slots that
\* remain: the calls of a client that returned True with a timestamp inside
\* the current window never outnumber max_requests
C2_LastSlotAdmitsOne ==
    \A c \in Clients :
        AdmittedIn(c, clock - window_seconds, clock) <= max_requests

\* C3: no admission is lost: every call that returned True at a time ts still
\* inside the window has ts in its client's list, once for each such call
C3_NoAdmissionLost ==
    \A c \in Clients : \A i \in DOMAIN admitted[c] :
        admitted[c][i] > clock - window_seconds =>
            Occurrences(Tracked(c), admitted[c][i])
                = Occurrences(admitted[c], admitted[c][i])

----------------------------------------------------------------------------
(* Properties of the cache called directly (SpecCache) *)

\* C9: get(k) returns the value of the latest set(k, v) exactly when at most
\* ttl_seconds have passed since that set, and None otherwise
C9_GetAfterSet ==
    [][gets' = gets + 1 =>
        LET k == lastGet'.key
        IN  lastGet'.value =
                IF k \in DOMAIN written
                   /\ lastGet'.time - written[k].time <= ttl_seconds
                THEN written[k].value
                ELSE PyNone]_vars

\* a get exactly ttl_seconds after the set returned the value that was set
C9_Witness ==
    /\ gets > 0
    /\ lastGet.key \in DOMAIN written
    /\ lastGet.time - written[lastGet.key].time = ttl_seconds
    /\ lastGet.value = written[lastGet.key].value
    /\ lastGet.value # PyNone

\* C10: get(k) more than ttl_seconds after the latest set(k, _) returns None
\* and removes the entry, and a get of a key with no entry returns None
C10_ExpiredIsRemoved ==
    [][gets' = gets + 1 =>
        LET k == lastGet'.key
        IN  /\ (k \in DOMAIN written /\ clock - written[k].time > ttl_seconds)
                => (lastGet'.value = PyNone /\ CacheFile(k) \notin DOMAIN files')
            /\ CacheFile(k) \notin DOMAIN files => lastGet'.value = PyNone]_vars

\* a get found the entry of an earlier set expired and removed it
C10_Witness ==
    /\ gets > 0
    /\ lastGet.key \in DOMAIN written
    /\ lastGet.time - written[lastGet.key].time > ttl_seconds
    /\ lastGet.value = PyNone
    /\ CacheFile(lastGet.key) \notin DOMAIN files

----------------------------------------------------------------------------
(* Properties of whole requests (Spec) *)

\* the parameters of a request fail validation: an unrecognised decade,
\* market, symbol or export format
InvalidParameters(req) ==
    \/ req.decade # NoArg /\ req.decade \notin ValidDecades
    \/ req.market # NoArg /\ req.market \notin ValidMarkets
    \/ req.endpoint = "stock" /\ Len(req.symbol) > 10
    \/ req.endpoint = "export" /\ req.format \notin {NoArg, "csv", "json", "CSV", "JSON"}

\* the list of client c after the step
TrackedNext(c) == IF c \in DOMAIN requests' THEN heap'[requests'[c]] ELSE <<>>

\* the list of client c before the step without the timestamps that are
\* expired at the time of the step
PrunedNow(c) ==
    LET Unexpired(ts) == ts > clock - window_seconds
    IN  SelectSeq(Tracked(c), Unexpired)

\* C4 as claimed: a request whose parameters fail validation adds no
\* timestamp to the list of its client and leaves the cache as it was
C4_InvalidNotCounted ==
    [][(calls' = calls + 1 /\ InvalidParameters(response'.req)) =>
        /\ files' = files
        /\ TrackedNext(response'.client_ip) = PrunedNow(response'.client_ip)]_vars

\* C4 amended: a request whose parameters fail validation leaves the cache
\* as it was, and the limiter counts it as it counts every request: it is
\* admitted when its client is under the limit and its timestamp is then added
C4_InvalidNotCached ==
    [][(calls' = calls + 1 /\ InvalidParameters(response'.req)) =>
        LET c == response'.client_ip
            under == Len(PrunedNow(c)) < max_requests
        IN  /\ files' = files
            /\ ~response'.cache_get /\ ~response'.cache_set /\ ~response'.queried
            /\ response'.status # 200
            /\ TrackedNext(c) = IF under THEN Append(PrunedNow(c), clock)
                                ELSE PrunedNow(c)]_vars

\* a request with an unrecognised parameter was answered 400 while the cache
\* held an entry, and its timestamp is in the list of its client
C4_Witness ==
    /\ calls > 0
    /\ response.status = 400
    /\ InvalidParameters(response.req)
    /\ files # EmptyDict
    /\ last.ret = TRUE
    /\ Occurrences(Tracked(response.client_ip), last.current_time) >= 1

\* C11: a request that is_allowed rejects is answered 429 with a message naming
\* the configured limit and window, and on that path there is no cache get, no
\* cache set and no query of the data store: the cache directory is unchanged
C11_RejectedIsThrottled ==
    [][(calls' = calls + 1 /\ last'.ret = FALSE) =>
        /\ response'.status = 429
        /\ response'.body.error = "Rate limit exceeded"
        /\ \E m \in WindowMinutesChoices :
            /\ WindowSeconds(m) = window_seconds
            /\ response'.body.message =
                    "Maximum " \o ToString(max_requests) \o " requests per "
                        \o ToString(m) \o " minutes"
        /\ ~response'.cache_get /\ ~response'.cache_set /\ ~response'.queried
        /\ files' = files]_vars

\* a cacheable request of a client at its limit was rejected while the cache
\* held an entry
C11_Witness ==
    /\ calls > 0
    /\ last.ret = FALSE
    /\ max_requests >= 1
    /\ response.status = 429
    /\ UsesCache(response.req.endpoint)
    /\ files # EmptyDict

\* C12: every data endpoint is fronted by the limiter and by the cache: a
\* request that reaches the data store was admitted by is_allowed and looked
\* its key up in the cache first, and a successful result of the data store
\* is stored in the cache
C12_EveryEndpointCached ==
    [][(calls' = calls + 1 /\ response'.queried) =>
        /\ last'.ret = TRUE
        /\ last'.client_ip = response'.client_ip
        /\ response'.cache_get
        /\ response'.status = 200 => response'.cache_set]_vars

\* the request passes the validation of a handler that uses the cache: it has
\* a cache key
HasCacheKey(req) ==
    /\ UsesCache(req.endpoint)
    /\ ValidationError(req) = NoArg
    /\ ~(req.endpoint = "top_performers" /\ LimitRaises(req))

\* C13: an admitted request whose key has an unexpired entry is answered with
\* exactly the stored value and without a query of the data store; an admitted
\* request that misses queries the data store once and, when that succeeds,
\* the result is stored before the response is returned, so that a get of the
\* key at any time up to ttl_seconds later returns the payload of the response
C13_HitOrMiss ==
    [][(calls' = calls + 1 /\ last'.ret = TRUE /\ HasCacheKey(response'.req)) =>
        LET key == CacheKey(response'.req)
            f == CacheFile(key)
            valid == f \in DOMAIN files /\ clock - files[f].mtime <= ttl_seconds
        IN  IF valid
            THEN /\ response'.status = 200
                 /\ response'.body = JsonLoad(files[f].content).value
                 /\ response'.body # PyNone
                 /\ ~response'.queried /\ ~response'.cache_set
                 /\ files' = files
            ELSE /\ response'.queried
                 /\ response'.status = 200 =>
                    /\ response'.cache_set
                    /\ f \in DOMAIN files' /\ files'[f].mtime = clock
                    /\ \A t \in clock .. (clock + ttl_seconds) :
                        DataCacheGet(files', key, t, ttl_seconds).value
                            = response'.body]_vars

\* a request was answered from the cache, without a query, with the payload
\* an earlier identical request had computed and stored
C13_Witness ==
    /\ calls = 2
    /\ response.status = 200
    /\ response.cache_get /\ ~response.queried
    /\ response.body.timestamp < clock
    /\ CacheFile(CacheKey(response.req)) \in DOMAIN files
    /\ files[CacheFile(CacheKey(response.req))].mtime = response.body.timestamp

\* the endpoint a cache file belongs to, from the prefix of its key
EndpointOfFile(f) ==
    CHOOSE e \in {r.endpoint : r \in {q \in Requests : HasCacheKey(q)}} :
        \E r \in Requests :
            HasCacheKey(r) /\ r.endpoint = e /\ CacheFile(CacheKey(r)) = f

\* C14: a request whose handler fails (500 on an exception of the data store,
\* 404 on no data) performs no cache set, and every cache entry holds the
\* payload of a successful result: never an error payload, and never the
\* empty result of an endpoint that answers 404 on no data
C14_FailuresNotCached ==
    /\ (calls > 0 /\ response.status \in {404, 500}) => ~response.cache_set
    /\ \A f \in DOMAIN files :
        LET loaded == JsonLoad(files[f].content)
        IN  /\ loaded.ok
            /\ "error" \notin DOMAIN loaded.value
            /\ "timestamp" \in DOMAIN loaded.value
            /\ EndpointOfFile(f) \in {"decade", "market", "stock"}
                => loaded.value.rows > 0

\* a handler failed after an earlier request had stored its result: the cache
\* still holds that result only
C14_Witness ==
    /\ calls = 2
    /\ response.status \in {404, 500}
    /\ response.queried
    /\ files # EmptyDict
    /\ HasCacheKey(response.req)
    /\ CacheFile(CacheKey(response.req)) \notin DOMAIN files

----------------------------------------------------------------------------
(* Properties of the cache keys (SpecKeys) *)

\* the endpoint of a request with the parameters its handler reads, normalized:
\* an absent parameter is absent, the symbol is upper-cased, the limit is at
\* most 50
Normalized(req) ==
    [endpoint |-> req.endpoint,
     decade |-> IF req.endpoint \in {"decade", "market", "top_performers", "statistics"}
                THEN req.decade ELSE NoArg,
     market |-> IF req.endpoint \in {"market", "top_performers", "statistics"}
                THEN req.market ELSE NoArg,
     symbol |-> IF req.endpoint = "stock" THEN Upper(req.symbol) ELSE NoArg,
     limit |-> IF req.endpoint # "top_performers" THEN 0
               ELSE IF LimitArg(req) > 50 THEN 50 ELSE LimitArg(req)]

\* C15: the key a handler looks up equals the key of another valid request
\* exactly when both are the same endpoint with the same normalized
\* parameters; in particular keys of different endpoints never coincide
C15_KeyInjective ==
    gets > 0 =>
        \A r \in KeyRequests :
            (lastGet.key = CacheKey(r))
                <=> (Normalized(response.req) = Normalized(r))

\* a request with limit=100 looked up the key that a different request (with
\* limit=50) also gets, and the keys of the other endpoints all differ from it
C15_Witness ==
    /\ gets > 0
    /\ response.req.limit = "100"
    /\ response.req.market = "Hong Kong"
    /\ \E r \in KeyRequests : r # response.req /\ CacheKey(r) = lastGet.key
    /\ \E r \in KeyRequests :
        r.endpoint = "statistics" /\ CacheKey(r) # lastGet.key

----------------------------------------------------------------------------
(* Properties of whole requests on a storage that can fail (SpecFaults) *)

\* C16: cache faults never reach the caller and behave as a miss: an admitted
\* request to a cached endpoint is never answered by the handler of uncaught
\* exceptions; it is answered from the cache only when the entry is unexpired
\* and holds a complete value, which it returns; otherwise it queries the data
\* store, and when that succeeds it returns the freshly computed response
\* whatever happens to the cache write
C16_CacheFaultsAreMisses ==
    [][(calls' = calls + 1 /\ last'.ret = TRUE /\ HasCacheKey(response'.req)) =>
        LET f == CacheFile(CacheKey(response'.req))
        IN  /\ response'.body # ErrorBody("Internal server error")
            /\ IF response'.queried
               THEN response'.status = 200 =>
                        /\ "timestamp" \in DOMAIN response'.body
                        /\ response'.body.timestamp = clock
                        /\ response'.body.endpoint = response'.req.endpoint
               ELSE /\ response'.status = 200
                    /\ f \in DOMAIN files
                    /\ clock - files[f].mtime <= ttl_seconds
                    /\ Decodable(files[f].content)
                    /\ JsonLoad(files[f].content).ok
                    /\ response'.body = JsonLoad(files[f].content).value]_vars

----------------------------------------------------------------------------
(* Properties of the cache under concurrent threads (SpecCacheThreads) *)

\* the threads that are inside set(k, _)
Setting(k) == {th \in Threads : pc[th] \in {"dump", "close"} /\ local[th].key = k}

\* C17: set is atomic for the readers of its key: a get(k) that returns while
\* a set(k, v2) is in progress over an unexpired entry v1 returns v1 or v2,
\* never None and never a part of a value
C17_SetIsAtomic ==
    [][(gets' = gets + 1 /\ lastGet'.key \in DOMAIN written
            /\ clock - written[lastGet'.key].time <= ttl_seconds
            /\ Setting(lastGet'.key) # {})
          => lastGet'.value \in
                {written[lastGet'.key].value}
                    \cup {local[th].data : th \in Setting(lastGet'.key)}]_vars

----------------------------------------------------------------------------
(* Properties of the responses (Spec) *)

\* C18: every response of a rate-limited endpoint, from the cache or fresh,
\* success or error, contains a timestamp field
C18_EveryResponseHasTimestamp ==
    calls > 0 => "timestamp" \in DOMAIN response.body

----------------------------------------------------------------------------
(* Properties of the limiter's configuration (SpecLimiter, SpecAnyWindow) *)

\* C19: with max_requests = 0 every is_allowed call returns False, for every
\* client and at every time, and no timestamp is ever recorded
C19_ZeroRejectsAll ==
    max_requests = 0 =>
        /\ calls > 0 => last.ret = FALSE
        /\ \A c \in Clients : admitted[c] = <<>>
        /\ \A c \in DOMAIN requests : heap[requests[c]] = <<>>

\* with max_requests = 0 both clients have called, the last call more than a
\* window after the first, and it was rejected
C19_Witness ==
    /\ max_requests = 0
    /\ calls >= 3
    /\ clock > window_seconds
    /\ last.current_time = clock
    /\ last.client_ip = "B"
    /\ last.ret = FALSE

\* C20: a limiter whose window is zero or negative is refused when it is
\* constructed: it never answers an is_allowed call
C20_BadWindowRefused ==
    window_seconds <= 0 => calls = 0

----------------------------------------------------------------------------
(* Properties of the no-data outcome (Spec) *)

\* C21: on every cached endpoint, a valid request whose query gives no row is
\* answered with the no-data response, never with a success payload and never
\* with a server error of its own, and that outcome is not stored: a success
\* payload, in a response or in the cache, never reports zero rows
C21_NoDataIsDistinct ==
    [][(calls' = calls + 1 /\ last'.ret = TRUE /\ HasCacheKey(response'.req)
            /\ response'.queried) =>
        LET f == CacheFile(CacheKey(response'.req))
        IN  /\ response'.status = 200 => response'.body.rows > 0
            /\ response'.status = 404 =>
                (~response'.cache_set /\ f \notin DOMAIN files')
            /\ f \in DOMAIN files' =>
                JsonLoad(files'[f].content).value.rows > 0]_vars

----------------------------------------------------------------------------
(* Independence of the clients of the limiter (SpecLimiter) *)

\* the timestamps of seq that are unexpired at time t
UnexpiredAt(seq, t) ==
    LET Unexpired(ts) == ts > t - window_seconds
    IN  SelectSeq(seq, Unexpired)

\* C22: admission is independent across clients. A call of a client b leaves
\* the unexpired timestamps of every other client a as they were, in the same
\* order; and at every time the unexpired timestamps the limiter holds for a
\* are the unexpired timestamps of a's own admitted calls, whatever the other
\* clients called: the result of a's next call, which is computed from them,
\* is the same in any two histories that agree on a's calls
C22_ClientsIndependent ==
    [][calls' = calls + 1 =>
        \A a \in Clients :
            /\ a # last'.client_ip =>
                UnexpiredAt(TrackedNext(a), clock) = UnexpiredAt(Tracked(a), clock)
            /\ UnexpiredAt(TrackedNext(a), clock) = UnexpiredAt(admitted'[a], clock)
            /\ a = last'.client_ip =>
                last'.ret = (Len(UnexpiredAt(admitted[a], clock)) < max_requests)]_vars

\* client B was admitted while client A held an expired and an unexpired
\* timestamp: A's list is untouched by B's call
C22_Witness ==
    /\ calls >= 3
    /\ last.client_ip = "B"
    /\ last.ret = TRUE
    /\ last.current_time = clock
    /\ \E i, j \in DOMAIN Tracked("A") :
        /\ Tracked("A")[i] <= last.cutoff_time
        /\ Tracked("A")[j] > last.cutoff_time
    /\ Tracked("A") = admitted["A"]

----------------------------------------------------------------------------
(* Independence of the cache keys (SpecCache) *)

\* the file the directory fs holds for key k, None when it holds none
Entry(fs, k) == IF CacheFile(k) \in DOMAIN fs THEN fs[CacheFile(k)] ELSE PyNone

\* C23: entries of distinct keys are independent. A get changes no entry but
\* the expired entry of its own key, which it removes; a set changes no entry
\* but that of its own key; so every entry keeps the value and the write time
\* of the latest set of its own key, and a get of a key returns None exactly
\* when more than ttl_seconds have passed since the set of that key
C23_KeysIndependent ==
    [][/\ \A k2 \in CacheKeys :
            Entry(files', k2) # Entry(files, k2) =>
                IF gets' = gets + 1
                THEN /\ k2 = lastGet'.key
                     /\ Entry(files', k2) = PyNone
                     /\ clock - written[k2].time > ttl_seconds
                ELSE /\ k2 \in DOMAIN written'
                     /\ written'[k2].time = clock
                     /\ (k2 \notin DOMAIN written \/ written'[k2] # written[k2])
       /\ \A k \in CacheKeys :
            CacheFile(k) \in DOMAIN files' =>
                /\ k \in DOMAIN written'
                /\ files'[CacheFile(k)] =
                    [mtime |-> written'[k].time,
                     content |-> JsonDump(written'[k].value)]
       /\ gets' = gets + 1 =>
            ((lastGet'.value = PyNone) <=>
                (lastGet'.key \notin DOMAIN written
                    \/ clock - written[lastGet'.key].time > ttl_seconds))]_vars

\* two keys were set at different times; the older entry has expired and was
\* removed, and a get of the younger one, at a time when the older one is
\* expired, returned its value
C23_Witness ==
    \E k1, k2 \in CacheKeys :
        /\ k1 # k2
        /\ k1 \in DOMAIN written /\ k2 \in DOMAIN written
        /\ written[k1].time < written[k2].time
        /\ gets >= 2
        /\ lastGet.key = k2
        /\ lastGet.time - written[k1].time > ttl_seconds
        /\ lastGet.value = written[k2].value
        /\ CacheFile(k1) \notin DOMAIN files
        /\ CacheFile(k2) \in DOMAIN files

----------------------------------------------------------------------------
(* Concurrent misses and lazy expiry (SpecCacheThreads) *)

\* C24: requests for one key that miss concurrently may each query and each
\* call set; the entry that remains once the sets have completed is the one
\* written by the last set to complete
C24_LastWriteWins ==
    \A k \in DOMAIN written :
        (Setting(k) = {} /\ CacheFile(k) \in DOMAIN files)
            => files[CacheFile(k)].content = JsonDump(written[k].value)

\* C25: the deletion done by a get that saw an expired entry never removes
\* the entry of a concurrent set: once a set has completed, its entry is
\* there for as long as its time to live lasts
C25_ExpiryKeepsFreshEntry ==
    \A k \in DOMAIN written :
        clock - written[k].time <= ttl_seconds
            => CacheFile(k) \in DOMAIN files

----------------------------------------------------------------------------
(* Fixed expiration (SpecCache) *)

\* C26: a get that hits leaves the stored value and the write time of every
\* entry as they were, the write time of an entry is the time of the last
\* set of its key, and a get more than ttl_seconds after that set returns
\* None however many gets hit the entry in between
C26_HitDoesNotExtend ==
    [][gets' = gets + 1 =>
        LET k == lastGet'.key
        IN  /\ lastGet'.value # PyNone => files' = files
            /\ \A j \in CacheKeys :
                CacheFile(j) \in DOMAIN files'
                    => /\ j \in DOMAIN written
                       /\ files'[CacheFile(j)].mtime = written[j].time
                       /\ files'[CacheFile(j)].content = JsonDump(written[j].value)
            /\ (k \in DOMAIN written /\ clock - written[k].time > ttl_seconds)
                => lastGet'.value = PyNone]_vars

\* a second or later get hit an entry some time after its set, and the entry
\* still carries the time of that set
C26_Witness ==
    /\ gets >= 2
    /\ lastGet.value # PyNone
    /\ lastGet.key \in DOMAIN written
    /\ lastGet.time > written[lastGet.key].time
    /\ CacheFile(lastGet.key) \in DOMAIN files
    /\ files[CacheFile(lastGet.key)].mtime = written[lastGet.key].time

====
